---- MODULE Spec2Model ----
(***************************************************************************)
(* State-machine model of torch_migraphx/dynamo/lower_dynamo.py:           *)
(*   lower_aten_to_mgx (whole-graph lowering, lines 45-79) and             *)
(*   lower_subgraph    (single-subgraph lowering, lines 83-112).           *)
(* The collaborators (run_aten_passes, get_partition_inputs, ShapeProp,    *)
(* MGXInterpreter, migraphx.save, MGXModule, print_graph_info) live        *)
(* outside this file; each of their calls either completes or raises, and  *)
(* the model takes both outcomes.  Python objects are identified by an     *)
(* integer id so that aliasing (the child held by the root and the child   *)
(* handed to lower_subgraph are one object) is kept.                       *)
(***************************************************************************)
EXTENDS Integers, Sequences, FiniteSets, TLC

\* ---------------------------------------------------------------- bounds
\* largest number of named children run_aten_passes leaves in the root
MaxChildren == 3

\* ------------------------------------------------------- keyword options
\* one optional keyword: absent (the empty mapping) or present with a value
Opt(k, vals) == {<<>>} \cup {k :> v : v \in vals}

\* names a caller may supply through the 'name' keyword
CallerNames == {"m"}

\* every **kwargs mapping a caller can hand to either entry point
KwargsSet ==
    {a @@ b @@ c @@ d : a \in Opt("verbose", BOOLEAN),
                        b \in Opt("fp16", BOOLEAN),
                        c \in Opt("save_mxr", BOOLEAN),
                        d \in Opt("name", CallerNames)}

\* kwargs[key] if key in kwargs else default
KwGet(kw, key, default) == IF key \in DOMAIN kw THEN kw[key] ELSE default

\* ------------------------------------------------------------ the objects
GraphModule(id) == [kind |-> "GraphModule", id |-> id, quantize_fp16 |-> FALSE]
NoneVal == [kind |-> "None", id |-> -1, quantize_fp16 |-> FALSE]
\* id used where no module is involved
NoId == NoneVal.id

\* name the partitioner gives the k-th fused child; names are the keys of
\* the root's module dictionary, hence distinct
ChildName(k) == "fused_" \o ToString(k)

\* the (name, module) pairs of a normalized root with n children; the
\* partitioner builds one module object per fused partition, so no two
\* names share an object and named_children() yields every name
NormalizedRoot(n) == [k \in 1..n |-> [name |-> ChildName(k), module |-> GraphModule(k)]]

NoPair == [name |-> "", module |-> NoneVal]
NoInputs == [child |-> NoId, seen |-> <<>>]
NoErr == [type |-> "none", at |-> ""]

VARIABLES
    entry,             \* which function the caller invoked
    kwargs,            \* the **kwargs the caller supplied to it
    pc,                \* source line about to execute, or "returned"/"raised"
    root,              \* optim_gm._modules: ordered (name, module) pairs
    i,                 \* position of the named_children() iterator
    mod,               \* loop variables name, mod
    partition_inputs,  \* loop variable partition_inputs
    mgx_mod,           \* loop variable mgx_mod
    sub_module,        \* lower_subgraph: parameter module
    sub_kwargs,        \* lower_subgraph: its **kwargs
    program,           \* lower_subgraph: interpreter.program
    result,            \* value handed back to the caller
    err,               \* exception that reached the caller
    meta,              \* ids of modules whose nodes carry ShapeProp metadata
    log                \* collaborator calls made so far, in order

vars == <<entry, kwargs, pc, root, i, mod, partition_inputs, mgx_mod,
          sub_module, sub_kwargs, program, result, err, meta, log>>

Event(op, id, arg) == [op |-> op, mod |-> id, arg |-> arg]

\* an exception leaves the function: nothing is caught anywhere in the file
Raise(type, at) ==
    /\ err' = [type |-> type, at |-> at]
    /\ pc' = "raised"

\* ------------------------------------------------------------------ Init
Init ==
    /\ entry \in {"lower_aten_to_mgx", "lower_subgraph"}
    /\ kwargs \in KwargsSet
    /\ pc = IF entry = "lower_aten_to_mgx" THEN "L60" ELSE "L95"
    /\ root = <<>>
    /\ i = 0
    /\ mod = NoPair
    /\ partition_inputs = NoInputs
    /\ mgx_mod = NoneVal
    /\ sub_module = IF entry = "lower_subgraph" THEN GraphModule(0) ELSE NoneVal
    /\ sub_kwargs = IF entry = "lower_subgraph" THEN kwargs ELSE <<>>
    /\ program = NoId
    /\ result = NoneVal
    /\ err = NoErr
    /\ meta = {}
    /\ log = <<>>

\* ------------------------------------------------------ lower_aten_to_mgx
Verbose(kw) == KwGet(kw, "verbose", FALSE)

\* lines 60-62
TracePrint ==
    /\ pc = "L60"
    /\ IF Verbose(kwargs)
       THEN /\ log' = Append(log, Event("print_graph_info", NoId, "Traced Model"))
            /\ \/ /\ pc' = "L64"
                  /\ err' = err
               \/ Raise("CollaboratorError", "print_graph_info")
       ELSE /\ pc' = "L64"
            /\ UNCHANGED <<log, err>>
    /\ UNCHANGED <<entry, kwargs, root, i, mod, partition_inputs, mgx_mod,
                   sub_module, sub_kwargs, program, result, meta>>

\* lines 64-65 and the creation of the named_children() iterator on line 67
RunAtenPasses ==
    /\ pc = "L64"
    /\ log' = Append(log, Event("run_aten_passes", NoId, ""))
    /\ \/ \E n \in 0..MaxChildren :
             /\ root' = NormalizedRoot(n)
             /\ i' = 0
             /\ pc' = "L67"
             /\ err' = err
       \/ /\ Raise("CollaboratorError", "run_aten_passes")
          /\ UNCHANGED <<root, i>>
    /\ UNCHANGED <<entry, kwargs, mod, partition_inputs, mgx_mod,
                   sub_module, sub_kwargs, program, result, meta>>

\* variant: the children are enumerated last to first
IterNextReversed(r, p) == r[Len(r) - p]

\* the iterator reads the module dictionary lazily: position p of the
\* dictionary as it is when the iterator is advanced
IterNext(r, p) == r[p + 1]

\* line 67 (advance the iterator) and line 79 (iterator exhausted)
NextChild ==
    /\ pc = "L67"
    /\ IF i < Len(root)
       THEN /\ mod' = IterNext(root, i)
            /\ i' = i + 1
            /\ pc' = "L68"
            /\ result' = result
       ELSE /\ pc' = "returned"
            /\ result' = [kind |-> "GraphModule", id |-> NoId, quantize_fp16 |-> FALSE]
            /\ UNCHANGED <<mod, i>>
    /\ UNCHANGED <<entry, kwargs, root, partition_inputs, mgx_mod,
                   sub_module, sub_kwargs, program, err, meta, log>>

\* what get_partition_inputs is shown of the root: the kind of every slot
RootKinds(r) == [k \in 1..Len(r) |-> r[k].module.kind]

\* lines 68-69
GetPartitionInputs ==
    /\ pc = "L68"
    /\ log' = Append(log, Event("get_partition_inputs", mod.module.id, mod.name))
    /\ \/ /\ partition_inputs' = [child |-> mod.module.id, seen |-> RootKinds(root)]
          /\ pc' = "L70"
          /\ err' = err
       \/ /\ Raise("CollaboratorError", "get_partition_inputs")
          /\ UNCHANGED partition_inputs
    /\ UNCHANGED <<entry, kwargs, root, i, mod, mgx_mod,
                   sub_module, sub_kwargs, program, result, meta>>

\* lines 70-71
ChildPrint ==
    /\ pc = "L70"
    /\ IF Verbose(kwargs)
       THEN /\ log' = Append(log, Event("print_graph_info", mod.module.id, mod.name))
            /\ \/ /\ pc' = "L73"
                  /\ err' = err
               \/ Raise("CollaboratorError", "print_graph_info")
       ELSE /\ pc' = "L73"
            /\ UNCHANGED <<log, err>>
    /\ UNCHANGED <<entry, kwargs, root, i, mod, partition_inputs, mgx_mod,
                   sub_module, sub_kwargs, program, result, meta>>

\* variant: one of the caller's options is lost on the way to the callee
CallKwargsDropFp16(name, kw) ==
    ("name" :> name) @@ [k \in DOMAIN kw \ {"fp16"} |-> kw[k]]

\* variant: the explicit name=name keyword is left out of the call
CallKwargsNoName(name, kw) == kw

\* the keyword arguments of  lower_subgraph(mod, partition_inputs,
\* name=name, **kwargs): the explicit keyword plus the unpacked mapping
CallKwargs(name, kw) == ("name" :> name) @@ kw

\* a keyword given both explicitly and through ** is a TypeError raised at
\* the call, before the callee's body starts
DuplicateKeyword(kw) == "name" \in DOMAIN kw

\* line 73, up to the entry of lower_subgraph
CallLowerSubgraph ==
    /\ pc = "L73"
    /\ IF DuplicateKeyword(kwargs)
       THEN /\ Raise("TypeError", "lower_subgraph")
            /\ UNCHANGED <<sub_module, sub_kwargs>>
       ELSE /\ sub_module' = mod.module
            /\ sub_kwargs' = CallKwargs(mod.name, kwargs)
            /\ pc' = "L95"
            /\ err' = err
    /\ UNCHANGED <<entry, kwargs, root, i, mod, partition_inputs, mgx_mod,
                   program, result, meta, log>>

\* variant: the substitution is forgotten
SetAttrNoop(r, name, value) == r

\* variant: the wrapper is bound to every slot from the named one on
SetAttrFromHere(r, name, value) ==
    LET at == CHOOSE k \in 1..Len(r) : r[k].name = name
    IN  [k \in 1..Len(r) |->
            IF k >= at THEN [name |-> r[k].name, module |-> value] ELSE r[k]]

\* variant: the wrapper is added under a fresh name instead of rebinding
SetAttrAppend(r, name, value) ==
    Append(r, [name |-> name \o "_mgx", module |-> value])

\* Module.__setattr__ with a module value: the entry under that name is
\* rebound in place; a name not yet present is added at the end
SetAttr(r, name, value) ==
    IF \E k \in 1..Len(r) : r[k].name = name
    THEN [k \in 1..Len(r) |->
            IF r[k].name = name THEN [name |-> name, module |-> value] ELSE r[k]]
    ELSE Append(r, [name |-> name, module |-> value])

\* lines 75-77
Substitute ==
    /\ pc = "L75"
    /\ root' = SetAttr(root, mod.name, mgx_mod)
    /\ log' = Append(log, Event("setattr", mod.module.id, mod.name))
    /\ mod' = NoPair
    /\ partition_inputs' = NoInputs
    /\ pc' = "L67"
    /\ UNCHANGED <<entry, kwargs, i, mgx_mod, sub_module, sub_kwargs,
                   program, result, err, meta>>

\* --------------------------------------------------------- lower_subgraph
\* variant: a shape-propagation failure is recorded but lowering goes on
ShapePropagateSwallow ==
    /\ pc = "L95"
    /\ log' = Append(log, Event("ShapeProp", sub_module.id, ""))
    /\ \/ /\ meta' = meta \cup {sub_module.id}
          /\ err' = err
       \/ /\ err' = [type |-> "CollaboratorError", at |-> "ShapeProp"]
          /\ UNCHANGED meta
    /\ pc' = "L101"
    /\ UNCHANGED <<entry, kwargs, root, i, mod, partition_inputs, mgx_mod,
                   sub_module, sub_kwargs, program, result>>

\* line 95
ShapePropagate ==
    /\ pc = "L95"
    /\ log' = Append(log, Event("ShapeProp", sub_module.id, ""))
    /\ \/ /\ meta' = meta \cup {sub_module.id}
          /\ pc' = "L101"
          /\ err' = err
       \/ /\ Raise("CollaboratorError", "ShapeProp")
          /\ UNCHANGED meta
    /\ UNCHANGED <<entry, kwargs, root, i, mod, partition_inputs, mgx_mod,
                   sub_module, sub_kwargs, program, result>>

\* line 99
SaveRequested(kw) == KwGet(kw, "save_mxr", FALSE)

\* variant: the artifact is written whether or not it was asked for
AfterInterpreterAlwaysSave(kw) == "L105"

\* line 104: where control goes once the interpreter has run
AfterInterpreter(kw) == IF SaveRequested(kw) THEN "L105" ELSE "L108"

\* lines 97-104
Interpret ==
    /\ pc = "L101"
    /\ log' = Append(log, Event("MGXInterpreter", sub_module.id, ""))
    /\ \/ /\ program' = sub_module.id
          /\ pc' = AfterInterpreter(sub_kwargs)
          /\ err' = err
       \/ /\ Raise("CollaboratorError", "MGXInterpreter")
          /\ UNCHANGED program
    /\ UNCHANGED <<entry, kwargs, root, i, mod, partition_inputs, mgx_mod,
                   sub_module, sub_kwargs, result, meta>>

\* variant: the extension is left off
FileNameNoExt(kw) == IF "name" \in DOMAIN kw THEN kw["name"] ELSE "prog.mxr"

\* line 105
FileName(kw) == IF "name" \in DOMAIN kw THEN kw["name"] \o ".mxr" ELSE "prog.mxr"

\* lines 105-106
SaveProgram ==
    /\ pc = "L105"
    /\ \/ /\ log' = Append(log, Event("migraphx.save", program, FileName(sub_kwargs)))
          /\ pc' = "L108"
          /\ err' = err
       \/ /\ Raise("CollaboratorError", "migraphx.save")
          /\ UNCHANGED log
    /\ UNCHANGED <<entry, kwargs, root, i, mod, partition_inputs, mgx_mod,
                   sub_module, sub_kwargs, program, result, meta>>

\* variant: reduced precision is the default
Fp16DefaultTrue(kw) == KwGet(kw, "fp16", TRUE)

\* line 98
Fp16(kw) == KwGet(kw, "fp16", FALSE)

\* MGXModule(program=..., input_names=..., quantize_fp16=fp16)
MGXModule(prog, fp16) == [kind |-> "MGXModule", id |-> prog, quantize_fp16 |-> fp16]

\* lines 108-112 and, inside lower_aten_to_mgx, the binding of mgx_mod
WrapAndReturn ==
    /\ pc = "L108"
    /\ log' = Append(log, Event("MGXModule", program, ""))
    /\ \/ /\ err' = err
          /\ IF entry = "lower_aten_to_mgx"
             THEN /\ mgx_mod' = MGXModule(program, Fp16(sub_kwargs))
                  /\ pc' = "L75"
                  /\ result' = result
             ELSE /\ result' = MGXModule(program, Fp16(sub_kwargs))
                  /\ pc' = "returned"
                  /\ mgx_mod' = mgx_mod
       \/ /\ Raise("CollaboratorError", "MGXModule")
          /\ UNCHANGED <<mgx_mod, result>>
    /\ UNCHANGED <<entry, kwargs, root, i, mod, partition_inputs,
                   sub_module, sub_kwargs, program, meta>>

Next ==
    \/ TracePrint
    \/ RunAtenPasses
    \/ NextChild
    \/ GetPartitionInputs
    \/ ChildPrint
    \/ CallLowerSubgraph
    \/ Substitute
    \/ ShapePropagate
    \/ Interpret
    \/ SaveProgram
    \/ WrapAndReturn

Spec == Init /\ [][Next]_vars

\* ---------------------------------------------------- reading the state
Whole == entry = "lower_aten_to_mgx"
Solo == entry = "lower_subgraph"

\* control is inside the body of lower_subgraph
InSubgraph == pc \in {"L95", "L101", "L105", "L108"}

\* control is inside one iteration of the loop of lower_aten_to_mgx
InIteration == Whole /\ (pc \in {"L68", "L70", "L73", "L75"} \/ InSubgraph)

\* positions of the log at which op was called for module id
Calls(op, id) == {p \in 1..Len(log) : log[p].op = op /\ log[p].mod = id}

\* the files written so far, in the order written
Saved ==
    LET s == SelectSeq(log, LAMBDA e : e.op = "migraphx.save")
    IN  [k \in 1..Len(s) |-> s[k].arg]

\* the caller passed fp16=True
Fp16Supplied(kw) == "fp16" \in DOMAIN kw /\ kw["fp16"] = TRUE

\* the caller passed save_mxr=True
SaveSupplied(kw) == "save_mxr" \in DOMAIN kw /\ kw["save_mxr"] = TRUE

\* the steps of the loop body and of lower_subgraph that fail for one child
ChildStages == {"get_partition_inputs", "lower_subgraph", "ShapeProp",
                "MGXInterpreter", "migraphx.save", "MGXModule"}

\* slots before position n hold wrappers compiled from their own child, and
\* slots from n on hold the original children
SubstitutedBefore(n) ==
    \A k \in 1..Len(root) :
        /\ root[k].name = ChildName(k)
        /\ root[k].module = IF k < n THEN [kind |-> "MGXModule", id |-> k,
                                            quantize_fp16 |-> Fp16Supplied(kwargs)]
                                      ELSE [kind |-> "GraphModule", id |-> k,
                                            quantize_fp16 |-> FALSE]

\* ------------------------------------------------------------------ C1
\* C1: when lower_aten_to_mgx returns, every child slot of the root holds a
\* compiled wrapper (the one compiled from that slot's child) and no slot
\* holds an original subgraph, for any number of children.
C1_AllChildrenLowered ==
    (Whole /\ pc = "returned") =>
        /\ \A k \in 1..Len(root) : root[k].module.kind = "MGXModule"
        /\ SubstitutedBefore(Len(root) + 1)

C1_Witness ==
    Whole /\ pc = "returned" /\ Len(root) >= 2

\* ------------------------------------------------------------------ C2
\* C2: when input resolution or the lowering of the child at position i
\* fails, the exception reaches the caller with every earlier child
\* substituted and child i and all later children still original.
C2_NoRollback ==
    (Whole /\ pc = "raised" /\ err.at \in ChildStages) =>
        /\ mod.module.id = i
        /\ SubstitutedBefore(i)

C2_Witness ==
    /\ Whole /\ pc = "raised" /\ err.at = "MGXInterpreter"
    /\ i = 2 /\ Len(root) = 3
    /\ root[1].module.kind = "MGXModule"
    /\ root[3].module.kind = "GraphModule"

C3_TypeErrorReached ==
    Whole /\ "name" \in DOMAIN kwargs /\ err.type = "TypeError"

\* ------------------------------------------------------------------ C4
\* C4: a direct lower_subgraph call with save_mxr true writes exactly one
\* file: "prog.mxr" when no name is supplied, "<name>.mxr" when one is.
C4_ArtifactName ==
    (Solo /\ SaveSupplied(kwargs) /\ pc \in {"L108", "returned"}) =>
        /\ "name" \notin DOMAIN kwargs => Saved = <<"prog.mxr">>
        /\ "name" \in DOMAIN kwargs => Saved = <<kwargs["name"] \o ".mxr">>
        /\ Saved \in {<<"prog.mxr">>, <<"m.mxr">>}

C4_Witness ==
    /\ Solo /\ pc = "returned" /\ SaveSupplied(kwargs)
    /\ "name" \notin DOMAIN kwargs
    /\ Saved = <<"prog.mxr">>

\* the supplied-name case of C4 happens as well
C4_WitnessNamed ==
    Solo /\ pc = "returned" /\ Saved = <<"m.mxr">>

\* ------------------------------------------------------------------ C5
\* C5: when shape propagation fails, lower_subgraph fails with that error:
\* no wrapper is produced, the interpreter is neither built nor run and no
\* file is written for that call, save_mxr or not.
C5_ShapePropFailureStops ==
    (err.at = "ShapeProp") =>
        /\ pc = "raised"
        /\ result = NoneVal
        /\ mgx_mod = NoneVal \/ mgx_mod.id # sub_module.id
        /\ \A op \in {"MGXInterpreter", "migraphx.save", "MGXModule"} :
              Calls(op, sub_module.id) = {}
        /\ Solo => Saved = <<>>
        /\ sub_module.id \notin meta

C5_Witness ==
    /\ Solo /\ err.at = "ShapeProp" /\ pc = "raised"
    /\ SaveSupplied(kwargs)

\* ------------------------------------------------------------------ C6
\* C6: children are processed one at a time in enumeration order: during
\* the iteration for child i the root has children 1..i-1 replaced and the
\* rest original, the inputs resolved for child i were computed from that
\* root, and no call for a child precedes a call for an earlier child.
C6_OneChildAtATime ==
    /\ InIteration =>
          /\ mod = [name |-> ChildName(i), module |-> GraphModule(i)]
          /\ SubstitutedBefore(i)
    /\ (Whole /\ partition_inputs # NoInputs) =>
          /\ partition_inputs.child = i
          /\ partition_inputs.seen =
                [k \in 1..Len(root) |->
                    IF k < i THEN "MGXModule" ELSE "GraphModule"]
    /\ Whole =>
          \A p, q \in 1..Len(log) :
              (p < q /\ log[p].mod >= 1) => log[p].mod <= log[q].mod

C6_Witness ==
    /\ Whole /\ pc = "L70" /\ i = 2
    /\ partition_inputs.seen[1] = "MGXModule"
    /\ partition_inputs.seen[2] = "GraphModule"

\* ------------------------------------------------------------------ C7
\* C7: the wrapper lower_subgraph returns is marked for reduced precision
\* exactly when fp16 was supplied as true.
C7_Fp16Mark ==
    /\ (Solo /\ pc = "returned") =>
          /\ result.kind = "MGXModule"
          /\ result.quantize_fp16 = Fp16Supplied(kwargs)
    /\ (Whole /\ pc = "L75") =>
          /\ mgx_mod.kind = "MGXModule"
          /\ mgx_mod.quantize_fp16 = Fp16Supplied(sub_kwargs)

C7_Witness ==
    /\ Solo /\ pc = "returned"
    /\ Fp16Supplied(kwargs)
    /\ result.quantize_fp16

\* the unmarked cases of C7 happen as well
C7_WitnessUnmarked ==
    /\ Solo /\ pc = "returned"
    /\ "fp16" \notin DOMAIN kwargs
    /\ ~result.quantize_fp16

\* ------------------------------------------------------------------ C8
\* C8: in one lower_subgraph call the steps run in the order shape
\* propagation, interpreter, optional write, wrapper: a file is written
\* only when save_mxr is true, after the first two have succeeded and
\* before the wrapper is built; without save_mxr no file is ever written.
C8_StepOrder ==
    LET ids == {log[p].mod : p \in 1..Len(log)} \ {NoId}
        Before(a, b, m) == \A p \in Calls(a, m), q \in Calls(b, m) : p < q
    IN  /\ \A m \in ids :
              /\ Before("ShapeProp", "MGXInterpreter", m)
              /\ Before("MGXInterpreter", "migraphx.save", m)
              /\ Before("migraphx.save", "MGXModule", m)
              /\ Before("ShapeProp", "MGXModule", m)
              /\ Before("MGXInterpreter", "MGXModule", m)
              /\ Calls("migraphx.save", m) # {} =>
                    /\ SaveSupplied(kwargs)
                    /\ Calls("ShapeProp", m) # {}
                    /\ Calls("MGXInterpreter", m) # {}
                    /\ m \in meta
              /\ Calls("MGXInterpreter", m) # {} => Calls("ShapeProp", m) # {}
              /\ Calls("MGXModule", m) # {} =>
                    /\ Calls("MGXInterpreter", m) # {}
                    /\ SaveSupplied(kwargs) => Calls("migraphx.save", m) # {}
        /\ ~SaveSupplied(kwargs) => Saved = <<>>

C8_Witness ==
    /\ Solo /\ pc = "returned"
    /\ Calls("ShapeProp", 0) = {1}
    /\ Calls("MGXInterpreter", 0) = {2}
    /\ Calls("migraphx.save", 0) = {3}
    /\ Calls("MGXModule", 0) = {4}

\* ------------------------------------------------------------------ C9
\* C9: with no failure the loop makes exactly as many iterations as there
\* are children and then returns: each child is lowered exactly once, no
\* collaborator is called twice for one child, and a wrapper placed in the
\* root is never enumerated.
C9_ExactlyOncePerChild ==
    Whole =>
        /\ \A p, q \in 1..Len(log) :
              (log[p].op = log[q].op /\ log[p].mod = log[q].mod) => p = q
        /\ mod.module.kind \in {"GraphModule", "None"}
        /\ i <= Len(root)
        /\ pc = "returned" =>
              /\ i = Len(root)
              /\ \A k \in 1..Len(root) :
                    \A op \in {"get_partition_inputs", "ShapeProp",
                               "MGXInterpreter", "MGXModule", "setattr"} :
                        Cardinality(Calls(op, k)) = 1
              /\ \A p \in 1..Len(log) : log[p].mod \in 1..Len(root) \cup {NoId}

C9_Witness ==
    /\ Whole /\ pc = "returned" /\ Len(root) >= 2
    /\ Cardinality(Calls("ShapeProp", 2)) = 1

\* ------------------------------------------------------------------ C10
\* C10: a successful lower_aten_to_mgx with save_mxr and no caller name
\* writes one file per child, "<child name>.mxr" of the child being
\* lowered; the files are pairwise different and none is "prog.mxr".
C10_OneArtifactPerChild ==
    (Whole /\ pc = "returned" /\ SaveSupplied(kwargs)
           /\ "name" \notin DOMAIN kwargs) =>
        /\ Saved = [k \in 1..Len(root) |-> ChildName(k) \o ".mxr"]
        /\ \A p, q \in 1..Len(Saved) : Saved[p] = Saved[q] => p = q
        /\ \A p \in 1..Len(Saved) : Saved[p] # "prog.mxr"
        /\ \A k \in 1..Len(root) : Cardinality(Calls("migraphx.save", k)) = 1

C10_Witness ==
    /\ Whole /\ pc = "returned" /\ SaveSupplied(kwargs)
    /\ "name" \notin DOMAIN kwargs
    /\ Len(Saved) >= 2
    /\ Saved[2] = "fused_2.mxr"

====
